---- MODULE Spec2Model ----
(***************************************************************************)
(* Model of phonebook_bot.py: the address book (Field wrappers, Record,    *)
(* AddressBook), the command handlers with the input_error decorator, the  *)
(* persistence functions and the command loop of main().                   *)
(*                                                                         *)
(* Strings that the code inspects character by character (phones and       *)
(* birthdays) are sequences of one-character strings; contact names are    *)
(* such sequences too.  The first word of an input line is a TLA+ string.  *)
(* A calendar date (datetime.date) is a record [y, m, d].                  *)
(***************************************************************************)
EXTENDS Integers, Sequences, FiniteSets, TLC

VARIABLES
    book,       \* the AddressBook of the running session: records in dict order
    file,       \* addressbook.pkl: [exists, data]
    pc,         \* "off" (no process), "loop" (main's while loop), "crashed"
    session,    \* number of sessions started so far
    line,       \* the last input line read by main
    outputs,    \* what main printed while handling the last input line
    today,      \* value of datetime.now().date() in the last birthdays query
    addLog,     \* history: per name, the valid phones given to add, in order
    addNames,   \* history: names used by two-argument add commands
    changeFree, \* history: no change command has been entered so far
    nlines      \* number of input lines read so far

vars == <<book, file, pc, session, line, outputs, today, addLog, addNames, changeFree,
          nlines>>

----------------------------------------------------------------------------
(* Bounds of the model *)

MaxPhones == 2      \* add is not offered once a record holds this many phones
MaxSessions == 2    \* number of program runs
MaxLines == 4       \* number of input lines read over all runs
YearSpan == 1       \* the birthdays query alone: clock years 2023 .. 2023 + YearSpan

----------------------------------------------------------------------------
(* Characters and strings *)

DigitChars == <<"0", "1", "2", "3", "4", "5", "6", "7", "8", "9">>

IsDigit(c) == \E i \in 1..10 : DigitChars[i] = c

DigitVal(c) == (CHOOSE i \in 1..10 : DigitChars[i] = c) - 1

AllDigits(s) == \A i \in 1..Len(s) : IsDigit(s[i])

\* int() of a string of decimal digits
RECURSIVE IntOf(_)
IntOf(s) == IF Len(s) = 0 THEN 0
            ELSE 10 * IntOf(SubSeq(s, 1, Len(s) - 1)) + DigitVal(s[Len(s)])

\* n written with exactly w decimal digits (zero padded)
RECURSIVE Pad(_, _)
Pad(n, w) == IF w = 0 THEN <<>>
             ELSE Pad(n \div 10, w - 1) \o <<DigitChars[(n % 10) + 1]>>

None == <<>>

----------------------------------------------------------------------------
(* datetime.date *)

IsLeap(y) == (y % 4 = 0 /\ y % 100 # 0) \/ y % 400 = 0

DaysInMonth(y, m) ==
    IF m = 2 THEN (IF IsLeap(y) THEN 29 ELSE 28)
    ELSE IF m \in {4, 6, 9, 11} THEN 30 ELSE 31

DaysBeforeYear(y) == (y - 1) * 365 + (y - 1) \div 4 - (y - 1) \div 100 + (y - 1) \div 400

RECURSIVE DaysBeforeMonth(_, _)
DaysBeforeMonth(y, m) == IF m = 1 THEN 0
                         ELSE DaysBeforeMonth(y, m - 1) + DaysInMonth(y, m - 1)

\* date.toordinal(): 1 January of year 1 is day 1
ToOrdinal(dt) == DaysBeforeYear(dt.y) + DaysBeforeMonth(dt.y, dt.m) + dt.d

\* date.weekday(): Monday is 0, Saturday 5, Sunday 6
Weekday(dt) == (ToOrdinal(dt) + 6) % 7

\* (a - b).days
DaysBetween(a, b) == ToOrdinal(a) - ToOrdinal(b)

\* a < b on dates
DateLess(a, b) ==
    \/ a.y < b.y
    \/ a.y = b.y /\ a.m < b.m
    \/ a.y = b.y /\ a.m = b.m /\ a.d < b.d

IsDate(y, m, d) == y >= 1 /\ y <= 9999 /\ m \in 1..12 /\ d >= 1 /\ d <= DaysInMonth(y, m)

NextDay(dt) ==
    IF dt.d < DaysInMonth(dt.y, dt.m) THEN [dt EXCEPT !.d = dt.d + 1]
    ELSE IF dt.m < 12 THEN [y |-> dt.y, m |-> dt.m + 1, d |-> 1]
    ELSE [y |-> dt.y + 1, m |-> 1, d |-> 1]

\* date + timedelta(days=k), k >= 0
RECURSIVE AddDays(_, _)
AddDays(dt, k) == IF k = 0 THEN dt ELSE AddDays(NextDay(dt), k - 1)

\* date.replace(year=y): ValueError when the day does not exist in year y
Replace(dt, y) ==
    IF IsDate(y, dt.m, dt.d) THEN [ok |-> TRUE, date |-> [dt EXCEPT !.y = y]]
    ELSE [ok |-> FALSE, date |-> dt]

\* date.strftime("%d.%m.%Y")
Strftime(dt) == Pad(dt.d, 2) \o <<".">> \o Pad(dt.m, 2) \o <<".">> \o Pad(dt.y, 4)

\* the parts of s between its "." characters
RECURSIVE SplitDots(_)
SplitDots(s) ==
    IF \A i \in 1..Len(s) : s[i] # "." THEN <<s>>
    ELSE LET i == CHOOSE k \in 1..Len(s) : s[k] = "." /\ \A j \in 1..(k - 1) : s[j] # "."
         IN <<SubSeq(s, 1, i - 1)>> \o SplitDots(SubSeq(s, i + 1, Len(s)))

\* datetime.strptime(s, "%d.%m.%Y").date(): %d and %m take one or two digits,
\* %Y exactly four; ValueError (ok = FALSE) when the text does not match the
\* format or names no calendar date
Strptime(s) ==
    LET parts == SplitDots(s)
        bad == [ok |-> FALSE, date |-> [y |-> 1, m |-> 1, d |-> 1]]
    IN IF Len(parts) # 3 THEN bad
       ELSE LET ds == parts[1]
                ms == parts[2]
                ys == parts[3]
            IN IF /\ Len(ds) \in {1, 2} /\ AllDigits(ds) /\ IntOf(ds) \in 1..31
                  /\ Len(ms) \in {1, 2} /\ AllDigits(ms) /\ IntOf(ms) \in 1..12
                  /\ Len(ys) = 4 /\ AllDigits(ys)
                  /\ IsDate(IntOf(ys), IntOf(ms), IntOf(ds))
               THEN [ok |-> TRUE, date |-> [y |-> IntOf(ys), m |-> IntOf(ms), d |-> IntOf(ds)]]
               ELSE bad

----------------------------------------------------------------------------
(* Field wrappers *)

\* Phone.__init__ without the check of the pattern
Phone_Unchecked(value) == [ok |-> TRUE, value |-> value]

\* Phone.__init__: re.match(r'^\d{10}$', value), else ValueError
Phone(value) == [ok |-> Len(value) = 10 /\ AllDigits(value), value |-> value]

\* Birthday.__init__: the shape \d{2}\.\d{2}\.\d{4}, then strptime; the stored
\* value is the parsed date
Birthday(value) ==
    LET shape == /\ Len(value) = 10
                 /\ \A i \in {1, 2, 4, 5, 7, 8, 9, 10} : IsDigit(value[i])
                 /\ value[3] = "." /\ value[6] = "."
    IN IF shape THEN Strptime(value)
       ELSE [ok |-> FALSE, date |-> [y |-> 1, m |-> 1, d |-> 1]]

----------------------------------------------------------------------------
(* Record *)

Record(name) == [name |-> name, phones |-> <<>>, birthday |-> None]

\* add_phone that skips a phone the record already has
add_phone_dedup(record, phone) ==
    IF \E i \in 1..Len(record.phones) : record.phones[i] = phone THEN record
    ELSE [record EXCEPT !.phones = Append(@, phone)]

add_phone(record, phone) == [record EXCEPT !.phones = Append(@, phone)]

\* remove_phone: the comprehension keeps the phones equal to the argument
RECURSIVE KeepEqual(_, _)
KeepEqual(phones, phone) ==
    IF Len(phones) = 0 THEN <<>>
    ELSE (IF Head(phones) = phone THEN <<Head(phones)>> ELSE <<>>)
         \o KeepEqual(Tail(phones), phone)

remove_phone(record, phone) == [record EXCEPT !.phones = KeepEqual(@, phone)]

\* edit_phone that goes on after the first match and replaces every match
edit_phone_all(record, old_phone, new_phone) ==
    IF \A i \in 1..Len(record.phones) : record.phones[i] # old_phone
    THEN [exc |-> "none", tag |-> "phone not found", record |-> record]
    ELSE IF ~(Len(new_phone) = 10 /\ AllDigits(new_phone))
    THEN [exc |-> "ValueError", tag |-> "invalid phone", record |-> record]
    ELSE [exc |-> "none", tag |-> "phone changed",
          record |-> [record EXCEPT !.phones =
                        [i \in 1..Len(record.phones) |->
                            IF record.phones[i] = old_phone THEN new_phone
                            ELSE record.phones[i]]]]

\* edit_phone: the first phone equal to old_phone is replaced by Phone(new_phone),
\* which raises ValueError for an invalid new_phone; without a match nothing is
\* constructed and the "not found" text is returned
edit_phone(record, old_phone, new_phone) ==
    LET hits == {i \in 1..Len(record.phones) : record.phones[i] = old_phone}
    IN IF hits = {} THEN [exc |-> "none", tag |-> "phone not found", record |-> record]
       ELSE LET index == CHOOSE i \in hits : \A j \in hits : i <= j
            IN IF Phone(new_phone).ok
               THEN [exc |-> "none", tag |-> "phone changed",
                     record |-> [record EXCEPT !.phones[index] = new_phone]]
               ELSE [exc |-> "ValueError", tag |-> "invalid phone", record |-> record]

\* Record.add_birthday stores its argument as it is
record_add_birthday(record, birthday) == [record EXCEPT !.birthday = birthday]

----------------------------------------------------------------------------
(* AddressBook: the dict as the sequence of its values in insertion order *)

\* AddressBook.find: the position of the record, 0 for None
find(b, name) ==
    IF \E i \in 1..Len(b) : b[i].name = name
    THEN CHOOSE i \in 1..Len(b) : b[i].name = name
    ELSE 0

add_record(b, record) ==
    IF find(b, record.name) = 0 THEN Append(b, record)
    ELSE [b EXCEPT ![find(b, record.name)] = record]

delete(b, name) ==
    IF find(b, name) = 0 THEN b
    ELSE SubSeq(b, 1, find(b, name) - 1) \o SubSeq(b, find(b, name) + 1, Len(b))

\* the weekend shift with one day for a Saturday too
shift_weekend_one(birthday_this_year) ==
    IF Weekday(birthday_this_year) \in {5, 6} THEN AddDays(birthday_this_year, 1)
    ELSE birthday_this_year

\* lines 150-153: a Saturday moves two days on, a Sunday one day
shift_weekend(birthday_this_year) ==
    IF Weekday(birthday_this_year) = 5 THEN AddDays(birthday_this_year, 2)
    ELSE IF Weekday(birthday_this_year) = 6 THEN AddDays(birthday_this_year, 1)
    ELSE birthday_this_year

\* one pass of the loop of get_upcoming_birthdays over contact: what it appends
\* to congrats_list, or the ValueError that strptime or replace raises
upcoming_of(contact, now) ==
    IF contact.birthday = None THEN [exc |-> "none", out |-> <<>>]
    ELSE LET parsed == Strptime(contact.birthday)
         IN IF ~parsed.ok THEN [exc |-> "ValueError", out |-> <<>>]
            ELSE LET this == Replace(parsed.date, now.y)
                 IN IF ~this.ok THEN [exc |-> "ValueError", out |-> <<>>]
                    ELSE LET nxt == IF DateLess(this.date, now)
                                    THEN Replace(parsed.date, now.y + 1)
                                    ELSE this
                         IN IF ~nxt.ok THEN [exc |-> "ValueError", out |-> <<>>]
                            ELSE LET days_until_birthday == DaysBetween(nxt.date, now)
                                 IN IF 0 <= days_until_birthday /\ days_until_birthday <= 7
                                    THEN [exc |-> "none",
                                          out |-> <<[name |-> contact.name,
                                                     date |-> Strftime(shift_weekend(nxt.date))]>>]
                                    ELSE [exc |-> "none", out |-> <<>>]

\* get_upcoming_birthdays: congrats_list in dict order (returned as None when
\* empty, which the caller tests with "not result"), or the first exception
RECURSIVE get_upcoming_birthdays(_, _)
get_upcoming_birthdays(b, now) ==
    IF Len(b) = 0 THEN [exc |-> "none", list |-> <<>>]
    ELSE LET first == upcoming_of(Head(b), now)
         IN IF first.exc # "none" THEN [exc |-> first.exc, list |-> <<>>]
            ELSE LET rest == get_upcoming_birthdays(Tail(b), now)
                 IN IF rest.exc # "none" THEN rest
                    ELSE [exc |-> "none", list |-> first.out \o rest.list]

----------------------------------------------------------------------------
(* Command handlers.  A handler body yields the exception it raises ("none" *)
(* when it returns), the text it returns or raises as a tag with its data,  *)
(* and the address book as it stands at that moment: a raise undoes nothing.*)

Return(tag, data, b) == [exc |-> "none", tag |-> tag, data |-> data, book |-> b]

Raise(exc, tag, b) == [exc |-> exc, tag |-> tag, data |-> <<>>, book |-> b]

\* the decorator without its ValueError clause and its catch-all: a ValueError
\* leaves the handler and reaches main
input_error_narrow(r) ==
    IF r.exc = "none"
    THEN [crash |-> FALSE, kind |-> "ok", tag |-> r.tag, data |-> r.data, book |-> r.book]
    ELSE IF r.exc \in {"KeyError", "IndexError"}
    THEN [crash |-> FALSE, kind |-> "error", tag |-> r.tag, data |-> r.data, book |-> r.book]
    ELSE [crash |-> TRUE, kind |-> "error", tag |-> r.tag, data |-> r.data, book |-> r.book]

\* the decorator: KeyError, ValueError and IndexError are returned as the
\* result, any other Exception as the "unexpected error" text
input_error(r) ==
    IF r.exc = "none"
    THEN [crash |-> FALSE, kind |-> "ok", tag |-> r.tag, data |-> r.data, book |-> r.book]
    ELSE IF r.exc \in {"KeyError", "ValueError", "IndexError"}
    THEN [crash |-> FALSE, kind |-> "error", tag |-> r.tag, data |-> r.data, book |-> r.book]
    ELSE [crash |-> FALSE, kind |-> "error", tag |-> "unexpected error", data |-> <<>>,
          book |-> r.book]

add_contact(args, b) ==
    IF Len(args) # 2 THEN Raise("ValueError", "unpack", b)
    ELSE LET name == args[1]
             phone == args[2]
             isNew == find(b, name) = 0
             b1 == IF isNew THEN add_record(b, Record(name)) ELSE b
             message == IF isNew THEN "contact added" ELSE "contact updated"
         IN IF Len(phone) > 0
            THEN IF Phone(phone).ok
                 THEN Return(message, <<name>>,
                             [b1 EXCEPT ![find(b1, name)] = add_phone(@, Phone(phone).value)])
                 ELSE Raise("ValueError", "invalid phone", b1)
            ELSE Return(message, <<name>>, b1)

change_contact(args, b) ==
    IF Len(args) # 3 THEN Raise("ValueError", "unpack", b)
    ELSE LET name == args[1]
             record == find(b, name)
         IN IF record = 0 THEN Raise("IndexError", "contact not found", b)
            ELSE LET result == edit_phone(b[record], args[2], args[3])
                 IN IF result.exc # "none" THEN Raise(result.exc, result.tag, b)
                    ELSE Return(result.tag, <<args[2], args[3]>>,
                                [b EXCEPT ![record] = result.record])

show_phone(args, b) ==
    IF Len(args) = 0 THEN Raise("ValueError", "no contact name", b)
    ELSE IF find(b, args[1]) # 0
    THEN Return("phones", b[find(b, args[1])].phones, b)
    ELSE Raise("IndexError", "contact not found", b)

show_all(b) ==
    IF Len(b) = 0 THEN Raise("ValueError", "no contacts", b)
    ELSE Return("all contacts", b, b)

\* the handler hands the text of its argument to Record.add_birthday
add_birthday(args, b) ==
    IF Len(args) # 2 THEN Raise("ValueError", "unpack", b)
    ELSE LET record == find(b, args[1])
         IN IF record = 0 THEN Raise("IndexError", "contact not found", b)
            ELSE Return("birthday added", <<args[1], args[2]>>,
                        [b EXCEPT ![record] = record_add_birthday(@, args[2])])

show_birthday(args, b) ==
    IF Len(args) = 0 THEN Raise("ValueError", "unpack", b)
    ELSE IF find(b, args[1]) = 0 THEN Raise("IndexError", "contact not found", b)
    ELSE Return("birthday", <<args[1], b[find(b, args[1])].birthday>>, b)

show_all_birthdays(b, now) ==
    IF Len(b) = 0 THEN Raise("ValueError", "no contacts", b)
    ELSE LET result == get_upcoming_birthdays(b, now)
         IN IF result.exc # "none" THEN Raise(result.exc, "date error", b)
            ELSE IF Len(result.list) = 0 THEN Return("no birthdays soon", <<>>, b)
            ELSE Return("upcoming", result.list, b)

----------------------------------------------------------------------------
(* Persistence *)

NoFile == [exists |-> FALSE, data |-> <<>>]

\* pickle.dump / pickle.load of the AddressBook: the dict items in order, each
\* record as its attribute values
pickle_dump(b) == [i \in 1..Len(b) |-> <<b[i].name, <<b[i].name, b[i].phones, b[i].birthday>>>>]

pickle_load(data) ==
    [i \in 1..Len(data) |->
        [name |-> data[i][2][1], phones |-> data[i][2][2], birthday |-> data[i][2][3]]]

\* save_data that leaves the file as it is
save_data_skip(b, f) == f

save_data(b, f) == [exists |-> TRUE, data |-> pickle_dump(b)]

\* FileNotFoundError yields a fresh AddressBook
load_data(f) == IF f.exists THEN pickle_load(f.data) ELSE <<>>

----------------------------------------------------------------------------
(* Input *)

Ann == <<"A", "n", "n">>
Bob == <<"B", "o", "b">>
Names == {Ann, Bob}

PhoneA == <<"0", "5", "0", "1", "2", "3", "4", "5", "6", "7">>
PhoneB == <<"0", "6", "7", "7", "6", "5", "4", "3", "2", "1">>
PhoneShort == <<"1", "2", "3", "4", "5">>
PhoneAlpha == <<"0", "5", "0", "1", "2", "3", "4", "5", "6", "x">>
PhoneLong == <<"0", "5", "0", "1", "2", "3", "4", "5", "6", "7", "8">>
PhoneWords == {PhoneA, PhoneB, PhoneShort, PhoneAlpha, PhoneLong}

Bd12Jun == <<"1", "2", ".", "0", "6", ".", "1", "9", "9", "0">>
Bd15Jun == <<"1", "5", ".", "0", "6", ".", "1", "9", "9", "0">>
Bd29Feb == <<"2", "9", ".", "0", "2", ".", "2", "0", "0", "0">>
Bd31Feb == <<"3", "1", ".", "0", "2", ".", "2", "0", "0", "0">>
BdShort == <<"1", ".", "6", ".", "1", "9", "9", "0">>
BirthdayWords == {Bd12Jun, Bd15Jun, Bd29Feb, Bd31Feb, BdShort}

Date(y, m, d) == [y |-> y, m |-> m, d |-> d]
NoDate == Date(0, 0, 0)

\* the dates the clock shows in a birthdays query
Todays == {Date(2024, 6, 10), Date(2024, 6, 8), Date(2024, 2, 25), Date(2023, 2, 25),
           Date(2024, 12, 30)}

\* str.lower() on the first word
lower(w) ==
    CASE w = "ADD" -> "add"
      [] w = "Exit" -> "exit"
      [] OTHER -> w

\* parse_input on the words of the line: (None, []) for a blank line, else the
\* lowered first word followed by the other words
parse_input(user_input) ==
    IF Len(user_input) = 0 THEN <<"None", <<>>>>
    ELSE <<lower(Head(user_input))>> \o Tail(user_input)

AddLines ==
    {<<"add">>, <<"add", Ann>>, <<"ADD", Ann, PhoneA>>, <<"add", Ann, PhoneA, PhoneB>>}
    \cup {<<"add", n, p>> : n \in Names, p \in PhoneWords}

ChangeLines ==
    {<<"change", Ann, PhoneA>>}
    \cup {<<"change", n[1], n[2], n[3]>> :
            n \in Names \X {PhoneA, PhoneB, PhoneShort} \X {PhoneA, PhoneB, PhoneShort, PhoneAlpha}}

PhoneLines == {<<"phone">>} \cup {<<"phone", n>> : n \in Names}

AllLines == {<<"all">>, <<"all", Ann>>}

AddBirthdayLines ==
    {<<"add-birthday", Ann>>}
    \cup {<<"add-birthday", n, w>> : n \in Names, w \in BirthdayWords}

ShowBirthdayLines == {<<"show-birthday">>} \cup {<<"show-birthday", n>> : n \in Names}

BirthdaysLines == {<<"birthdays">>}

HelloLines == {<<"hello">>}

InfoLines == {<<"info">>}

CloseLines == {<<"close">>, <<"exit">>, <<"Exit">>}

InvalidLines == {<<>>, <<"remove", Ann>>, <<"add-phone", Ann, PhoneA>>}

\* the value of line before the first input of a run
NoLine == <<"<no input yet>">>

Command(l) == parse_input(l)[1]
Args(l) == Tail(parse_input(l))

----------------------------------------------------------------------------
(* main *)

Printed(r) == [kind |-> r.kind, tag |-> r.tag, data |-> r.data]

Info(tag) == [crash |-> FALSE, kind |-> "info", tag |-> tag, data |-> <<>>, book |-> book]

\* the part of one pass of the while loop that every branch but close/exit
\* shares: print the result r of the branch and go round again; an exception
\* that leaves the handler ends the process with nothing printed
Loop(l, r, now) ==
    /\ pc = "loop"
    /\ nlines < MaxLines
    /\ nlines' = nlines + 1
    /\ line' = l
    /\ today' = now
    /\ book' = r.book
    /\ outputs' = IF r.crash THEN <<>> ELSE <<Printed(r)>>
    /\ pc' = IF r.crash THEN "crashed" ELSE "loop"
    /\ UNCHANGED <<file, session>>

ValidPhoneText(p) ==
    Len(p) = 10 /\ \A i \in 1..10 : p[i] \in {"0", "1", "2", "3", "4", "5", "6", "7", "8", "9"}

\* the bound on the phone lists: an add that would append is offered only to a
\* record with fewer than MaxPhones phones
RoomFor(l) ==
    IF Len(Args(l)) # 2 THEN TRUE
    ELSE IF ~ValidPhoneText(Args(l)[2]) THEN TRUE
    ELSE IF find(book, Args(l)[1]) = 0 THEN TRUE
    ELSE Len(book[find(book, Args(l)[1])].phones) < MaxPhones

EmptyLog == [n \in Names |-> <<>>]

Init ==
    /\ book = <<>>
    /\ file = NoFile
    /\ pc = "off"
    /\ session = 0
    /\ line = NoLine
    /\ outputs = <<>>
    /\ today = NoDate
    /\ addLog = EmptyLog
    /\ addNames = {}
    /\ changeFree = TRUE
    /\ nlines = 0

\* main up to the first input(): load_data and the welcome line
Start ==
    /\ pc = "off"
    /\ session < MaxSessions
    /\ session' = session + 1
    /\ book' = load_data(file)
    /\ pc' = "loop"
    /\ line' = NoLine
    /\ outputs' = <<[kind |-> "info", tag |-> "welcome", data |-> <<>>]>>
    /\ today' = NoDate
    /\ UNCHANGED <<file, addLog, addNames, changeFree, nlines>>

CloseExit ==
    \E l \in CloseLines :
        /\ pc = "loop"
        /\ Command(l) \in {"close", "exit"}
        /\ nlines < MaxLines
        /\ nlines' = nlines + 1
        /\ line' = l
        /\ file' = save_data(book, file)
        /\ outputs' = <<[kind |-> "info", tag |-> "good bye", data |-> <<>>]>>
        /\ pc' = "off"
        /\ today' = NoDate
        /\ UNCHANGED <<book, session, addLog, addNames, changeFree>>

Hello ==
    \E l \in HelloLines :
        /\ Command(l) = "hello"
        /\ Loop(l, Info("how can I help you"), NoDate)
        /\ UNCHANGED <<addLog, addNames, changeFree>>

ShowInfo ==
    \E l \in InfoLines :
        /\ Command(l) = "info"
        /\ Loop(l, Info("available commands"), NoDate)
        /\ UNCHANGED <<addLog, addNames, changeFree>>

AddContact ==
    \E l \in AddLines :
        /\ Command(l) = "add"
        /\ RoomFor(l)
        /\ Loop(l, input_error(add_contact(Args(l), book)), NoDate)
        /\ IF changeFree /\ Len(Args(l)) = 2
           THEN /\ addNames' = addNames \cup {Args(l)[1]}
                /\ addLog' = IF ValidPhoneText(Args(l)[2])
                             THEN [addLog EXCEPT ![Args(l)[1]] = Append(@, Args(l)[2])]
                             ELSE addLog
           ELSE UNCHANGED <<addLog, addNames>>
        /\ UNCHANGED changeFree

\* the history of the add commands is kept only up to the first change command
ChangeContact ==
    \E l \in ChangeLines :
        /\ Command(l) = "change"
        /\ Loop(l, input_error(change_contact(Args(l), book)), NoDate)
        /\ changeFree' = FALSE
        /\ addLog' = EmptyLog
        /\ addNames' = {}

ShowPhone ==
    \E l \in PhoneLines :
        /\ Command(l) = "phone"
        /\ Loop(l, input_error(show_phone(Args(l), book)), NoDate)
        /\ UNCHANGED <<addLog, addNames, changeFree>>

ShowAll ==
    \E l \in AllLines :
        /\ Command(l) = "all"
        /\ Loop(l, input_error(show_all(book)), NoDate)
        /\ UNCHANGED <<addLog, addNames, changeFree>>

AddBirthday ==
    \E l \in AddBirthdayLines :
        /\ Command(l) = "add-birthday"
        /\ Loop(l, input_error(add_birthday(Args(l), book)), NoDate)
        /\ UNCHANGED <<addLog, addNames, changeFree>>

ShowBirthday ==
    \E l \in ShowBirthdayLines :
        /\ Command(l) = "show-birthday"
        /\ Loop(l, input_error(show_birthday(Args(l), book)), NoDate)
        /\ UNCHANGED <<addLog, addNames, changeFree>>

BirthdaysQuery(now) ==
    \E l \in BirthdaysLines :
        /\ Command(l) = "birthdays"
        /\ Loop(l, input_error(show_all_birthdays(book, now)), now)
        /\ UNCHANGED <<addLog, addNames, changeFree>>

ShowAllBirthdays == \E now \in Todays : BirthdaysQuery(now)

InvalidCommand ==
    \E l \in InvalidLines :
        /\ Command(l) \notin {"close", "exit", "hello", "info", "add", "change", "phone",
                              "all", "add-birthday", "show-birthday", "birthdays"}
        /\ Loop(l, [crash |-> FALSE, kind |-> "error", tag |-> "invalid command",
                    data |-> <<>>, book |-> book], NoDate)
        /\ UNCHANGED <<addLog, addNames, changeFree>>

Next ==
    \/ Start
    \/ CloseExit
    \/ Hello
    \/ ShowInfo
    \/ AddContact
    \/ ChangeContact
    \/ ShowPhone
    \/ ShowAll
    \/ AddBirthday
    \/ ShowBirthday
    \/ ShowAllBirthdays
    \/ InvalidCommand

Spec == Init /\ [][Next]_vars

----------------------------------------------------------------------------
(* The birthdays query on its own: a later run that has just loaded a saved *)
(* book whose contacts carry the birthday texts below and has one input     *)
(* line left, a birthdays query made on any day of the calendar years       *)
(* 2023 .. 2023 + YearSpan.                                                 *)

Bd16Jun == <<"1", "6", ".", "0", "6", ".", "1", "9", "8", "5">>
Bd31Dec == <<"3", "1", ".", "1", "2", ".", "1", "9", "9", "9">>
Bd01Jan == <<"0", "1", ".", "0", "1", ".", "1", "9", "8", "0">>
StoredBirthdays == {None, Bd12Jun, Bd15Jun, Bd16Jun, Bd29Feb, Bd31Dec, Bd01Jan, Bd31Feb}

Contact(name, birthday) == [name |-> name, phones |-> <<PhoneA>>, birthday |-> birthday]

StoredBooks ==
    {<<Contact(Ann, a)>> : a \in StoredBirthdays}
    \cup {<<Contact(Ann, a), Contact(Bob, b)>> : a \in StoredBirthdays, b \in StoredBirthdays}

Calendar ==
    {dt \in [y : 2023..(2023 + YearSpan), m : 1..12, d : 1..31] : IsDate(dt.y, dt.m, dt.d)}

InitBirthdays ==
    /\ book \in StoredBooks
    /\ file = save_data(book, NoFile)
    /\ pc = "loop"
    /\ session = MaxSessions
    /\ line = NoLine
    /\ outputs = <<[kind |-> "info", tag |-> "welcome", data |-> <<>>]>>
    /\ today = NoDate
    /\ addLog = EmptyLog
    /\ addNames = {}
    /\ changeFree = FALSE
    /\ nlines = MaxLines - 1

ShowAllBirthdaysAnyDay == \E now \in Calendar : BirthdaysQuery(now)

SpecBirthdays == InitBirthdays /\ [][ShowAllBirthdaysAnyDay]_vars

----------------------------------------------------------------------------
(* Properties *)

\* a line has been read and handled since the run started
Handled == line # NoLine

\* the step reads and handles an input line
ReadsLine == nlines' = nlines + 1

NamesOf(b) == {b[i].name : i \in 1..Len(b)}

\* C1: every record's birthday is unset or a text that passes the Birthday
\* validation (shape DD.MM.YYYY and a real calendar date); add-birthday with a
\* malformed or calendar-invalid argument sets nothing.
C1_BirthdaysValidated ==
    \A i \in 1..Len(book) : book[i].birthday = None \/ Birthday(book[i].birthday).ok

\* C2: every entry of every phone list, in the running book and in the saved
\* file, is a text of exactly 10 decimal digits.
C2_PhonesAreTenDigits ==
    /\ \A i \in 1..Len(book) : \A j \in 1..Len(book[i].phones) :
            ValidPhoneText(book[i].phones[j])
    /\ \A i \in 1..Len(file.data) : \A j \in 1..Len(file.data[i][2][2]) :
            ValidPhoneText(file.data[i][2][2][j])

\* an add or change whose last word is no valid phone was answered with an
\* error while a record holds phones
C2_Witness ==
    /\ Handled
    /\ Command(line) \in {"add", "change"}
    /\ Len(line) >= 3
    /\ ~ValidPhoneText(line[Len(line)])
    /\ outputs[1].kind = "error"
    /\ \E i \in 1..Len(book) : Len(book[i].phones) = MaxPhones

\* the contacts the last birthdays query listed, with the dates it gave
Listed == IF Handled /\ Command(line) = "birthdays" /\ outputs[1].tag = "upcoming"
          THEN outputs[1].data ELSE <<>>

SameDayMonth(a, b) == a.m = b.m /\ a.d = b.d

\* the days from now, within a week, on which the birthday text w falls
DueDays(w, now) ==
    IF w = None \/ ~Strptime(w).ok THEN {}
    ELSE {k \in 0..7 : SameDayMonth(AddDays(now, k), Strptime(w).date)}

\* C3: a birthdays query lists a contact exactly when the contact has a
\* birthday whose next occurrence on or after today is 0 to 7 days away.
C3_ListedIffDue ==
    (Handled /\ Command(line) = "birthdays" /\ Len(book) > 0) =>
        \A i \in 1..Len(book) :
            (\E j \in 1..Len(Listed) : Listed[j].name = book[i].name)
                <=> DueDays(book[i].birthday, today) # {}

\* C3 where the query raised nothing
C3_ListedIffDueWhenAnswered ==
    (Handled /\ Command(line) = "birthdays" /\ Len(book) > 0 /\ outputs[1].kind = "ok") =>
        \A i \in 1..Len(book) :
            (\E j \in 1..Len(Listed) : Listed[j].name = book[i].name)
                <=> DueDays(book[i].birthday, today) # {}

\* C4: the date listed for a contact is the next occurrence of the birthday on
\* or after today when that is a Monday to Friday, two days later when it is a
\* Saturday, one day later when it is a Sunday; so it is never a Saturday or
\* Sunday and lies between today and today + 9 days.
C4_ListedDateShifted ==
    \A j \in 1..Len(Listed) :
        LET w == book[find(book, Listed[j].name)].birthday
            k == CHOOSE k \in DueDays(w, today) : \A k2 \in DueDays(w, today) : k <= k2
            occurrence == AddDays(today, k)
            expected == CASE Weekday(occurrence) = 5 -> AddDays(occurrence, 2)
                          [] Weekday(occurrence) = 6 -> AddDays(occurrence, 1)
                          [] OTHER -> occurrence
            given == Strptime(Listed[j].date)
        IN /\ DueDays(w, today) # {}
           /\ Listed[j].date = Strftime(expected)
           /\ given.ok
           /\ Weekday(given.date) \in 0..4
           /\ DaysBetween(given.date, today) \in 0..9

\* today is Monday 10.06.2024: the 15.06 birthday (a Saturday) is listed as
\* 17.06.2024 and the 16.06 birthday (a Sunday) as 17.06.2024 too
C4_Witness ==
    /\ today = Date(2024, 6, 10)
    /\ Len(Listed) = 2
    /\ book[1].birthday = Bd15Jun
    /\ book[2].birthday = Bd16Jun
    /\ Listed[1].date = <<"1", "7", ".", "0", "6", ".", "2", "0", "2", "4">>
    /\ Listed[2].date = <<"1", "7", ".", "0", "6", ".", "2", "0", "2", "4">>

\* C5: without change commands the book holds exactly one record per name used
\* in an add command, and the record's phone list is the sequence of the valid
\* phones given in the add commands for that name, in order, duplicates kept.
C5_AddsAccumulate ==
    changeFree =>
        /\ NamesOf(book) = addNames
        /\ Len(book) = Cardinality(NamesOf(book))
        /\ \A i \in 1..Len(book) : book[i].phones = addLog[book[i].name]

\* an add for an existing name was answered "updated" and the same phone is in
\* the list twice
C5_Witness ==
    /\ changeFree
    /\ Handled
    /\ Command(line) = "add"
    /\ outputs[1].tag = "contact updated"
    /\ \E i \in 1..Len(book) : book[i].phones = <<PhoneA, PhoneA>>

\* sequence t is s with its first entry equal to old replaced by new
FirstReplaced(s, t, old, new) ==
    \E i \in 1..Len(s) :
        /\ s[i] = old
        /\ \A j \in 1..(i - 1) : s[j] # old
        /\ Len(t) = Len(s)
        /\ t[i] = new
        /\ \A j \in 1..Len(s) : j # i => t[j] = s[j]

\* the step handles a change command with three arguments for a known contact
ChangesKnown ==
    /\ ReadsLine
    /\ Command(line') = "change"
    /\ Len(Args(line')) = 3
    /\ find(book, Args(line')[1]) # 0

OldIsThere == \E j \in 1..Len(book[find(book, Args(line')[1])].phones) :
                 book[find(book, Args(line')[1])].phones[j] = Args(line')[2]

OthersKept == /\ Len(book') = Len(book)
              /\ \A i \in 1..Len(book) :
                    /\ book'[i].name = book[i].name
                    /\ book'[i].birthday = book[i].birthday
                    /\ i # find(book, Args(line')[1]) => book'[i] = book[i]

\* C6 as stated: on a record that contains old, edit_phone(old, new) replaces
\* the first entry equal to old by new and leaves the rest; on a record that
\* does not contain old the list is unchanged and "not found" is returned
\* without an error, for every new.
C6_EditReplacesFirst ==
    [][ChangesKnown =>
          /\ OthersKept
          /\ IF OldIsThere
             THEN /\ FirstReplaced(book[find(book, Args(line')[1])].phones,
                                   book'[find(book, Args(line')[1])].phones,
                                   Args(line')[2], Args(line')[3])
                  /\ outputs'[1].kind = "ok"
             ELSE /\ book' = book
                  /\ outputs'[1].kind = "ok"
                  /\ outputs'[1].tag = "phone not found"]_vars

\* C6 amended: the replacement happens when new is a valid 10-digit phone; when
\* old is there and new is not valid, the list is unchanged and the command
\* returns the validation error.
C6_EditReplacesFirstValid ==
    [][ChangesKnown =>
          /\ OthersKept
          /\ IF OldIsThere /\ ValidPhoneText(Args(line')[3])
             THEN /\ FirstReplaced(book[find(book, Args(line')[1])].phones,
                                   book'[find(book, Args(line')[1])].phones,
                                   Args(line')[2], Args(line')[3])
                  /\ outputs'[1].kind = "ok"
                  /\ outputs'[1].tag = "phone changed"
             ELSE IF OldIsThere
             THEN /\ book' = book
                  /\ outputs'[1].kind = "error"
                  /\ outputs'[1].tag = "invalid phone"
             ELSE /\ book' = book
                  /\ outputs'[1].kind = "ok"
                  /\ outputs'[1].tag = "phone not found"]_vars

\* change Ann PhoneA PhoneB on the list PhoneA, PhoneA gave PhoneB, PhoneA
C6_Witness ==
    /\ Handled
    /\ Command(line) = "change"
    /\ outputs[1].tag = "phone changed"
    /\ Len(book) = 1
    /\ Args(line)[2] = PhoneA
    /\ book[1].phones = <<PhoneB, PhoneA>>

\* C7: whatever the input line, the loop keeps running and prints exactly one
\* result for it; the process ends only on close or exit.
C7_LoopSurvives ==
    /\ pc # "crashed"
    /\ Handled =>
        /\ Len(outputs) = 1
        /\ pc = "off" <=> Command(line) \in {"close", "exit"}

\* a blank line, a wrong argument count, an invalid phone, an unknown contact:
\* answered with one error, the loop running
C7_Witness ==
    /\ Handled
    /\ pc = "loop"
    /\ Len(outputs) = 1
    /\ outputs[1].kind = "error"
    /\ outputs[1].tag \in {"invalid command", "unpack", "invalid phone", "contact not found"}
    /\ Len(book) > 0

SameContacts(a, b) ==
    /\ Len(a) = Len(b)
    /\ \A i \in 1..Len(a) :
          /\ a[i].name = b[i].name
          /\ a[i].phones = b[i].phones
          /\ a[i].birthday = b[i].birthday

\* C8: the first run, with no file, starts with an empty book; only close/exit
\* writes the file; the run after a close/exit starts with the names, phone
\* lists and birthdays the book had at the close/exit.
C8_SaveThenLoad ==
    [][/\ (pc = "off" /\ pc' = "loop") =>
            IF session = 0 THEN ~file.exists /\ book' = <<>>
            ELSE SameContacts(book', book)
       /\ (file' # file) => (ReadsLine /\ Command(line') \in {"close", "exit"})
       /\ (ReadsLine /\ Command(line') \in {"close", "exit"}) =>
            (pc' = "off" /\ book' = book)]_vars

\* the second run has started with a contact that has a phone and a birthday
C8_Witness ==
    /\ session = 2
    /\ pc = "loop"
    /\ ~Handled
    /\ Len(book) = 1
    /\ Len(book[1].phones) = 1
    /\ book[1].birthday # None

\* C9: a command answered with an error leaves the address book as it was.
C9_ErrorsChangeNothing ==
    [][(ReadsLine /\ outputs'[1].kind = "error") => book' = book]_vars

\* C10: on a non-empty book whose birthdays all pass the Birthday validation,
\* the birthdays command answers with the list or "No birthdays soon.", never
\* with an error.
C10_BirthdaysNeverFails ==
    (/\ Handled
     /\ Command(line) = "birthdays"
     /\ Len(book) > 0
     /\ \A i \in 1..Len(book) : book[i].birthday = None \/ Birthday(book[i].birthday).ok)
        => outputs[1].tag \in {"upcoming", "no birthdays soon"}

====
